---- MODULE Spec2Model ----
(***************************************************************************)
(* Model of the two dataset containers of vision/datasets:                 *)
(*   COCODataset (coco_dataset.py) and YOLODataset (yolo_dataset.py).      *)
(* Construction (__init__ / _read_data) is modelled step by step, one      *)
(* action per loop iteration; _getitem / get_annotation are one action per *)
(* call.  numpy arrays live in a heap of cells so that aliasing between a  *)
(* record's storage and a returned array is observable.  Coordinates are   *)
(* exact rationals <<num, den>> in lowest terms.  viz_inputs is taken at   *)
(* its default (False): the diagnostic overlay is not modelled.            *)
(***************************************************************************)
EXTENDS Integers, Sequences, FiniteSets, TLC

\* ------------------------------------------------------------------ bounds
\* Largest number of image entries (COCO) / label files (YOLO) of a source.
MaxImages == 2
\* Largest number of annotations of one image.
MaxAnns == 1
\* Number of prior boxes the target encoding matches against.
NumPriors == 2
\* Number of callers that may be inside __repr__ at once.
NumThreads == 2

\* -------------------------------------------------------------- rationals
RECURSIVE GCD(_, _)
GCD(a, b) == IF b = 0 THEN a ELSE GCD(b, a % b)

Abs(n) == IF n < 0 THEN -n ELSE n

\* The rational n/d (d # 0) in lowest terms with a positive denominator.
Frac(n, d) ==
    LET g == GCD(Abs(n), Abs(d))
        s == IF d < 0 THEN -1 ELSE 1
    IN  <<(s * n) \div g, (s * d) \div g>>

QInt(n) == <<n, 1>>
QAdd(p, q) == Frac(p[1] * q[2] + q[1] * p[2], p[2] * q[2])
QSub(p, q) == Frac(p[1] * q[2] - q[1] * p[2], p[2] * q[2])
QMul(p, q) == Frac(p[1] * q[1], p[2] * q[2])
\* p / n for an integer n # 0 (numpy's true division by a dimension).
QDivInt(p, n) == Frac(p[1], p[2] * n)

\* ------------------------------------------------------- sequence helpers
Range(s) == {s[i] : i \in DOMAIN s}

RECURSIVE SumLen(_)
SumLen(ss) == IF ss = <<>> THEN 0 ELSE Len(Head(ss)) + SumLen(Tail(ss))

\* Sequences over S of length at most n.
SeqsUpTo(S, n) == UNION {[1..k -> S] : k \in 0..n}

\* Python list indexing is 0-based: s[i].
At0(s, i) == s[i + 1]

\* ------------------------------------------------------------------ inputs
\* Category lists of a source, in source order: COCO loadCats(getCatIds()),
\* YOLO summary.toml [categories] (name = raw id).
Contig == <<[id |-> 1, name |-> "cat"], [id |-> 2, name |-> "dog"]>>
Sparse == <<[id |-> 7, name |-> "cat"], [id |-> 3, name |-> "dog"]>>
DupName == <<[id |-> 1, name |-> "cat"], [id |-> 2, name |-> "cat"]>>
BgNamed == <<[id |-> 1, name |-> "BACKGROUND"], [id |-> 2, name |-> "dog"]>>

\* A TOML table cannot repeat a key, so a YOLO summary has distinct names.
CatLists(v) ==
    IF v = "coco" THEN {Contig, Sparse, DupName}
    ELSE {Sparse, BgNamed}

\* Image sizes <<width, height>> in pixels.
Sizes == {<<100, 100>>, <<100, 50>>}

\* One image entry of the source: whether its image file is on disk, the
\* size of that image, and how many annotations refer to it.
\* An absent file has no size; its annotations are never read.
Entries ==
    {[present |-> FALSE, size |-> <<0, 0>>, n |-> 0]}
        \cup [present : {TRUE}, size : Sizes, n : 0..MaxAnns]

\* A YOLO clip directory: its number of label files and the number of image
\* files that pair with no label file.
Clips == [labels : 1..MaxImages, extra : 0..1]

\* The file reference (COCO image id, YOLO image path) of the j-th entry.
Ref(j) == 10 * j + 7

\* The k-th annotation of an image refers to this position of the category
\* list.
AnnCatPos(k, cs) == ((k - 1) % Len(cs)) + 1

\* COCO annotation k of an image: category_id and bbox [x, y, w, h] pixels.
CocoAnn(k, cs) ==
    [category_id |-> cs[AnnCatPos(k, cs)].id,
     bbox |-> IF k = 1 THEN <<QInt(0), QInt(0), QInt(10), QInt(10)>>
              ELSE <<QInt(20), QInt(10), QInt(30), QInt(20)>>]

\* YOLO label row k: raw category id, x_center, y_center, width, height,
\* the geometry as fractions of the image.
YoloRow(k, cs) ==
    IF k = 1
    THEN <<cs[AnnCatPos(k, cs)].id, Frac(1, 20), Frac(1, 20), Frac(1, 10), Frac(1, 10)>>
    ELSE <<cs[AnnCatPos(k, cs)].id, Frac(1, 2), Frac(1, 2), Frac(1, 5), Frac(2, 5)>>

\* ------------------------------------------------------------ box geometry
xywh_to_xyxy(b) == <<b[1], b[2], QAdd(b[1], b[3]), QAdd(b[2], b[4])>>

yolo_to_xyxy(b) ==
    LET hw == QMul(b[3], Frac(1, 2))
        hh == QMul(b[4], Frac(1, 2))
    IN  <<QSub(b[1], hw), QSub(b[2], hh), QAdd(b[1], hw), QAdd(b[2], hh)>>

xyxy_norm_to_abs(b, width, height) ==
    <<QMul(b[1], QInt(width)), QMul(b[2], QInt(height)),
      QMul(b[3], QInt(width)), QMul(b[4], QInt(height))>>

\* ------------------------------------------------------------------- state
VARIABLES
    variant,          \* "coco" (COCODataset) or "yolo" (YOLODataset)
    cats,             \* the source's category list
    images,           \* the source's image entries, in scan order
    clips,            \* YOLO: the clip directories, partitioning images
    transform,        \* whether self.transform is configured
    target_transform, \* whether self.target_transform is configured
    balance_data,     \* the constructor's balance_data argument
    pc,               \* position of construction: cats, scan, clip, init, ready, failed
    err,              \* the exception that ended construction, or "none"
    class_names,      \* the class catalog
    class_dict,       \* class name -> index
    cat_map,          \* YOLO: raw category id -> canonical index
    local_data,       \* _read_data's list `data`
    skipped_images,   \* _read_data's counter (COCO)
    cursor,           \* next entry of images to scan
    clip,             \* YOLO: clip directory being scanned
    data,             \* self.data
    heap,             \* numpy arrays by address
    ret,              \* outcome of the latest _getitem / get_annotation call
    class_stat,       \* self.class_stat: the dict it refers to (id 0 = None)
    thr               \* per caller: its position inside __repr__ and its locals

vars == <<variant, cats, images, clips, transform, target_transform,
          balance_data, pc, err, class_names, class_dict, cat_map,
          local_data, skipped_images, cursor, clip, data, heap, ret,
          class_stat, thr>>

stats == <<class_stat, thr>>

input == <<variant, cats, images, clips, transform, target_transform, balance_data>>

NoCall == [status |-> "none"]

Threads == 1..NumThreads

\* self.class_stat = None
NoStat == [id |-> 0, counts |-> <<>>]

\* A caller that is not inside __repr__.
Idle ==
    [pc |-> "idle", i |-> 0, k |-> 0,
     held |-> [id |-> 0, name |-> "", val |-> 0],
     summary |-> [images |-> 0, min_image_num |-> 0, counts |-> <<>>]]

Init ==
    /\ variant \in {"coco", "yolo"}
    /\ cats \in CatLists(variant)
    /\ images \in {s \in SeqsUpTo(Entries, MaxImages) :
                        \A i, j \in DOMAIN s :
                            s[i].present /\ s[j].present => s[i].size = s[j].size}
    /\ clips \in IF variant = "coco" THEN {<<>>}
                 ELSE {cl \in SeqsUpTo(Clips, MaxImages) :
                          SumLen([i \in DOMAIN cl |-> [j \in 1..cl[i].labels |-> j]])
                              = Len(images)}
    /\ transform \in BOOLEAN
    /\ target_transform \in BOOLEAN
    /\ balance_data \in BOOLEAN
    /\ pc = "cats"
    /\ err = "none"
    /\ class_names = <<>>
    /\ class_dict = <<>>
    /\ cat_map = <<>>
    /\ local_data = <<>>
    /\ skipped_images = 0
    /\ cursor = 1
    /\ clip = 1
    /\ data = <<>>
    /\ heap = <<>>
    /\ ret = NoCall
    /\ class_stat = NoStat
    /\ thr = [t \in Threads |-> Idle]

\* ----------------------------------------------------------- class catalog
\* The keys of a Python dict built by inserting the elements of s in order:
\* each key once, at the position of its first insertion.
RECURSIVE DictKeys(_)
DictKeys(s) ==
    IF s = <<>> THEN <<>>
    ELSE LET init == DictKeys(SubSeq(s, 1, Len(s) - 1))
             last == s[Len(s)]
         IN  IF last \in Range(init) THEN init ELSE Append(init, last)

\* For a Python dict written under keys[1], keys[2], ... in order: the
\* position of the write that stays under each key (the last one).
DictLast(keys) ==
    [k \in Range(keys) |->
        CHOOSE i \in DOMAIN keys : keys[i] = k /\ \A j \in (i + 1)..Len(keys) : keys[j] # k]

CocoCatalogFromOne(cs) ==
    LET names == <<"BACKGROUND">> \o [i \in DOMAIN cs |-> cs[i].name]
    IN  [class_names |-> names,
         class_dict |-> [k \in Range(names) |-> DictLast(names)[k]],
         cat_map |-> <<>>]

\* COCODataset._read_data, the catalog part.
CocoCatalog(cs) ==
    LET pure_class_names == [i \in DOMAIN cs |-> cs[i].name]
        names == <<"BACKGROUND">> \o pure_class_names
    IN  [class_names |-> names,
         class_dict |-> [k \in Range(names) |-> DictLast(names)[k] - 1],
         cat_map |-> <<>>]

\* YOLODataset._read_data, the catalog part. summary['categories'] maps a
\* name to its raw id.
YoloCatalog(cs) ==
    LET keys == DictKeys(<<"BACKGROUND">> \o [i \in DOMAIN cs |-> cs[i].name])
    IN  [class_names |-> keys,
         class_dict |-> [k \in Range(keys) |-> DictLast(keys)[k] - 1],
         cat_map |-> DictLast([i \in DOMAIN cs |-> cs[i].id])]

ReadCategories ==
    /\ pc = "cats"
    /\ LET c == IF variant = "coco" THEN CocoCatalog(cats) ELSE YoloCatalog(cats)
       IN  /\ class_names' = c.class_names
           /\ class_dict' = c.class_dict
           /\ cat_map' = c.cat_map
    /\ pc' = IF variant = "coco" THEN "scan" ELSE "clip"
    /\ UNCHANGED <<stats, input, err, local_data, skipped_images, cursor, clip, data,
                   heap, ret>>

\* ------------------------------------------------------------ numpy arrays
\* np.array(rows): a list of n > 0 boxes gives shape (n, 4); an empty list
\* gives shape (0,), one axis only.
NpArrayOfBoxes(rows) == [ndim |-> IF rows = <<>> THEN 1 ELSE 2, rows |-> rows]
NpArrayOfLabels(rows) == [ndim |-> 1, rows |-> rows]
\* np.empty((0, 4)) grown by np.vstack: always two axes.
NpStackedBoxes(rows) == [ndim |-> 2, rows |-> rows]

\* ---------------------------------------------------------------- COCO scan
CocoBoxes(e) == [k \in 1..e.n |-> xywh_to_xyxy(CocoAnn(k, cats).bbox)]
CocoLabels(e) == [k \in 1..e.n |-> CocoAnn(k, cats).category_id]

\* One iteration of the loop over all_image_ids: st holds the loop's state
\* (data, skipped_images, heap), e is the image entry, id its image id.
CocoScanStepUncounted(st, e, id) ==
    IF ~e.present
    THEN st
    ELSE LET b == Len(st.heap) + 1
         IN  [st EXCEPT
                !.heap = st.heap \o <<NpArrayOfBoxes(CocoBoxes(e)),
                                      NpArrayOfLabels(CocoLabels(e))>>,
                !.data = Append(@, [image_id |-> id, boxes |-> b, labels |-> b + 1])]

CocoScanStep(st, e, id) ==
    IF ~e.present
    THEN [st EXCEPT !.skipped = @ + 1]
    ELSE LET b == Len(st.heap) + 1
         IN  [st EXCEPT
                !.heap = st.heap \o <<NpArrayOfBoxes(CocoBoxes(e)),
                                      NpArrayOfLabels(CocoLabels(e))>>,
                !.data = Append(@, [image_id |-> id, boxes |-> b, labels |-> b + 1])]

CocoScanImage ==
    /\ pc = "scan"
    /\ variant = "coco"
    /\ cursor <= Len(images)
    /\ LET st == CocoScanStep([data |-> local_data, skipped |-> skipped_images,
                               heap |-> heap], images[cursor], Ref(cursor))
       IN  /\ local_data' = st.data
           /\ skipped_images' = st.skipped
           /\ heap' = st.heap
    /\ cursor' = cursor + 1
    /\ UNCHANGED <<stats, input, pc, err, class_names, class_dict, cat_map, clip, data, ret>>

\* _read_data returns; __init__ binds self.data.
ReadDone ==
    /\ \/ pc = "scan" /\ variant = "coco" /\ cursor > Len(images)
       \/ pc = "clip" /\ variant = "yolo" /\ clip > Len(clips)
    /\ data' = local_data
    /\ pc' = "init"
    /\ UNCHANGED <<stats, input, err, class_names, class_dict, cat_map, local_data,
                   skipped_images, cursor, clip, heap, ret>>

\* ---------------------------------------------------------------- YOLO scan
\* cv2.imread + cvtColor of a file on disk: height x width x 3 channels.
ReadImage(e) == [layout |-> "HWC", shape |-> <<e.size[2], e.size[1], 3>>]

\* First / last entry of images that belongs to clip directory c.
ClipStart(c) == 1 + SumLen([i \in 1..(c - 1) |-> [j \in 1..clips[i].labels |-> j]])
ClipEnd(c) == ClipStart(c) + clips[c].labels - 1

\* len(det_stills_paths): the paired stills on disk plus the unpaired ones.
StillCount(c) ==
    Cardinality({j \in ClipStart(c)..ClipEnd(c) : images[j].present}) + clips[c].extra

ClipCountsUnchecked(c) == TRUE

\* The assertion on a clip directory's two listings.
ClipCountsMatch(c) == clips[c].labels = StillCount(c)

YoloEnterClip ==
    /\ pc = "clip"
    /\ variant = "yolo"
    /\ clip <= Len(clips)
    /\ IF ~ClipCountsMatch(clip)
       THEN /\ pc' = "failed"
            /\ err' = "AssertionError"
            /\ clip' = clip
       ELSE /\ err' = err
            /\ IF clips[clip].labels = 0
               THEN pc' = pc /\ clip' = clip + 1
               ELSE pc' = "scan" /\ clip' = clip
    /\ UNCHANGED <<stats, input, class_names, class_dict, cat_map, local_data,
                   skipped_images, cursor, data, heap, ret>>

YoloBoxes(e) ==
    LET image == ReadImage(e)
        image_width == image.shape[2]
        image_height == image.shape[1]
    IN  [k \in 1..e.n |->
            xyxy_norm_to_abs(yolo_to_xyxy(SubSeq(YoloRow(k, cats), 2, 5)),
                             image_width, image_height)]

YoloLabels(e) == [k \in 1..e.n |-> cat_map[YoloRow(k, cats)[1]]]

\* One iteration of the loop over a clip's label files, for a still that is
\* on disk: st holds (data, heap).
YoloScanStep(st, e, path) ==
    LET b == Len(st.heap) + 1
    IN  [st EXCEPT
           !.heap = st.heap \o <<NpStackedBoxes(YoloBoxes(e)),
                                 NpArrayOfLabels(YoloLabels(e))>>,
           !.data = Append(@, [image_id |-> path, boxes |-> b, labels |-> b + 1])]

YoloScanFrame ==
    /\ pc = "scan"
    /\ variant = "yolo"
    /\ IF ~images[cursor].present
       THEN \* cv2.imread returns None; image.shape raises
            /\ pc' = "failed"
            /\ err' = "AttributeError:imread"
            /\ UNCHANGED <<local_data, heap, cursor, clip>>
       ELSE /\ LET st == YoloScanStep([data |-> local_data, heap |-> heap],
                                      images[cursor], Ref(cursor))
               IN  local_data' = st.data /\ heap' = st.heap
            /\ cursor' = cursor + 1
            /\ err' = err
            /\ IF cursor + 1 > ClipEnd(clip)
               THEN pc' = "clip" /\ clip' = clip + 1
               ELSE pc' = pc /\ clip' = clip
    /\ UNCHANGED <<stats, input, class_names, class_dict, cat_map, skipped_images, data, ret>>

\* ------------------------------------------------------- rest of __init__
\* Methods COCODataset defines.
CocoMethods ==
    {"__init__", "_load_cocoapi", "_id_to_filename", "_getitem", "__getitem__",
     "get_annotation", "get_image", "_read_data", "_xywh_to_xyxy", "__len__",
     "__repr__", "_read_image"}

\* What `self.data = self._balance_data()` (COCO) and
\* `self.data = self.balance_data()` (YOLO, where self.balance_data was just
\* bound to the constructor's flag) do: "ok" or the exception raised.
BalanceCall(v) ==
    IF v = "coco"
    THEN IF "_balance_data" \in CocoMethods THEN "ok" ELSE "AttributeError"
    ELSE "TypeError"

FinishInit ==
    /\ pc = "init"
    /\ IF balance_data /\ BalanceCall(variant) # "ok"
       THEN pc' = "failed" /\ err' = BalanceCall(variant)
       ELSE pc' = "ready" /\ err' = err
    /\ UNCHANGED <<stats, input, class_names, class_dict, cat_map, local_data,
                   skipped_images, cursor, clip, data, heap, ret>>

\* ------------------------------------------------------------------ access
\* self.data[index] on a Python list of length n: the 1-based position of
\* the element served, 0 when the access raises IndexError.
PyIndexNoWrap(n, index) == IF 0 <= index /\ index < n THEN index + 1 ELSE 0

PyIndex(n, index) ==
    IF 0 <= index /\ index < n THEN index + 1
    ELSE IF -n <= index /\ index < 0 THEN n + index + 1
    ELSE 0

\* The source entry behind a stored file reference.
EntryOf(id) == images[CHOOSE j \in DOMAIN images : Ref(j) = id]

\* copy.copy of the numpy array at address a: a new array with the same
\* contents, at a fresh address.
AliasArray(h, a) == [heap |-> h, addr |-> a]

CopyArray(h, a) == [heap |-> Append(h, h[a]), addr |-> Len(h) + 1]

\* How a configured image+boxes+labels transform may behave on one call.
TransformKinds == {"to_tensor", "drop_box"}
\* The behaviours open to one call: none to choose from without a transform.
CallKinds == IF transform THEN TransformKinds ELSE {"none"}

ToTensor(image) ==
    [layout |-> "CHW", shape |-> <<image.shape[3], image.shape[1], image.shape[2]>>]

\* self.transform(image, boxes, labels) behaving as t; boxes and labels are
\* addresses. "to_tensor" hands the arrays back untouched, "drop_box"
\* returns a new box array without the last box and the labels as they were.
\* Both return the image as a channel-first tensor.
Transform(t, image, boxes, labels, h) ==
    CASE t = "to_tensor" ->
            [image |-> ToTensor(image), boxes |-> boxes, labels |-> labels, heap |-> h]
      [] t = "drop_box" ->
            LET rows == h[boxes].rows
                kept == SubSeq(rows, 1, IF rows = <<>> THEN 0 ELSE Len(rows) - 1)
            IN  [image |-> ToTensor(image), boxes |-> Len(h) + 1, labels |-> labels,
                 heap |-> Append(h, [ndim |-> h[boxes].ndim, rows |-> kept])]

\* boxes[:,0] /= width ... boxes[:,3] /= height, in place on the array at
\* address boxes, with width = image.shape[1] and height = image.shape[2].
Normalize(image, boxes, h) ==
    LET width == At0(image.shape, 1)
        height == At0(image.shape, 2)
    IN  IF h[boxes].ndim < 2
        THEN [status |-> "IndexError", heap |-> h]
        ELSE [status |-> "ok",
              heap |-> [h EXCEPT ![boxes].rows =
                          [i \in DOMAIN @ |->
                              <<QDivInt(@[i][1], width), QDivInt(@[i][2], height),
                                QDivInt(@[i][3], width), QDivInt(@[i][4], height)>>]]]

\* self.target_transform(boxes, labels): one location and one label per
\* prior, in new arrays.
TargetTransform(boxes, labels, h) ==
    LET b == h[boxes].rows
        l == h[labels].rows
        zero == <<QInt(0), QInt(0), QInt(0), QInt(0)>>
    IN  [boxes |-> Len(h) + 1, labels |-> Len(h) + 2,
         heap |-> h \o <<[ndim |-> 2,
                          rows |-> [p \in 1..NumPriors |->
                                      IF b = <<>> THEN zero ELSE b[1]]],
                         [ndim |-> 1,
                          rows |-> [p \in 1..NumPriors |->
                                      IF l = <<>> THEN 0 ELSE l[1]]]>>]

Failed(index, what, h) ==
    [heap |-> h, ret |-> [status |-> what, index |-> index]]

\* _getitem(index), with the configured transform (if any) behaving as t.
\* Arrays of an earlier call that nothing refers to any more are dropped.
GetItem(index, t) ==
    LET live == SubSeq(heap, 1, 2 * Len(data))
        k == PyIndex(Len(data), index)
    IN  IF k = 0 THEN Failed(index, "IndexError:list", live)
        ELSE
        LET image_info == data[k]
            image0 == ReadImage(EntryOf(image_info.image_id))
            cb == CopyArray(live, image_info.boxes)
            cl == CopyArray(cb.heap, image_info.labels)
            tr == IF transform
                  THEN Transform(t, image0, cb.addr, cl.addr, cl.heap)
                  ELSE [image |-> image0, boxes |-> cb.addr, labels |-> cl.addr,
                        heap |-> cl.heap]
            nz == Normalize(tr.image, tr.boxes, tr.heap)
        IN  IF nz.status # "ok" THEN Failed(index, "IndexError:array", live)
            ELSE LET tg == IF target_transform
                          THEN TargetTransform(tr.boxes, tr.labels, nz.heap)
                          ELSE [boxes |-> tr.boxes, labels |-> tr.labels,
                                heap |-> nz.heap]
                IN  [heap |-> tg.heap,
                     ret |-> [status |-> "ok", index |-> index,
                              image_id |-> image_info.image_id,
                              image |-> tr.image, boxes |-> tg.boxes,
                              labels |-> tg.labels,
                              tkind |-> t]]

Indices == -(Len(data) + 1)..Len(data)

\* __getitem__(index)
Get ==
    /\ pc = "ready"
    /\ \E index \in Indices, t \in CallKinds :
          LET r == GetItem(index, t)
          IN  /\ heap' = r.heap
              /\ ret' = r.ret @@ [call |-> "__getitem__"]
    /\ UNCHANGED <<stats, input, pc, err, class_names, class_dict, cat_map, local_data,
                   skipped_images, cursor, clip, data>>

\* get_annotation(index), COCODataset only: _getitem plus a zero per box.
GetAnnotation ==
    /\ pc = "ready"
    /\ variant = "coco"
    /\ \E index \in Indices, t \in CallKinds :
          LET r == GetItem(index, t)
          IN  /\ heap' = r.heap
              /\ ret' = IF r.ret.status = "ok"
                        THEN r.ret @@ [call |-> "get_annotation",
                                       is_difficult |->
                                         [i \in DOMAIN r.heap[r.ret.boxes].rows |-> 0]]
                        ELSE r.ret @@ [call |-> "get_annotation"]
    /\ UNCHANGED <<stats, input, pc, err, class_names, class_dict, cat_map, local_data,
                   skipped_images, cursor, clip, data>>

\* The caller takes the sample the latest call returned and writes into its
\* arrays (in-place augmentation downstream).
CallerMutate ==
    /\ pc = "ready"
    /\ ret.status = "ok"
    /\ heap' = [heap EXCEPT
                  ![ret.boxes].rows =
                      [i \in DOMAIN @ |-> <<QInt(0), QInt(0), QInt(0), QInt(0)>>],
                  ![ret.labels].rows = [i \in DOMAIN @ |-> 0]]
    /\ ret' = [ret EXCEPT !.status = "consumed"]
    /\ UNCHANGED <<stats, input, pc, err, class_names, class_dict, cat_map, local_data,
                   skipped_images, cursor, clip, data>>

\* ---------------------------------------------------------------- __repr__
\* self.min_image_num, set once in __init__ and never changed.
min_image_num == -1

\* labels of record i, as __repr__ iterates them.
LabelsOf(i) == heap[data[i].labels].rows

\* The first position (record, label) at or after record i that holds a
\* label, <<0, 0>> when the nested loops are exhausted.
RECURSIVE NextLabel(_, _)
NextLabel(i, k) ==
    IF i > Len(data) THEN <<0, 0>>
    ELSE IF k <= Len(LabelsOf(i)) THEN <<i, k>>
    ELSE NextLabel(i + 1, 1)

\* One step of a caller th inside __repr__ against the shared attribute cs
\* (self.class_stat); me names the dict the caller would create. The steps
\* are the points at which another thread can run in between:
\*   idle  -> the test `self.class_stat is None`
\*   init  -> the dict of zeros is built and bound to self.class_stat
\*   load  -> class_names[class_index], load of self.class_stat and of the
\*            count under that name (first half of `+= 1`)
\*   store -> the incremented count is stored into the dict that was loaded
\*   content -> the summary is read off self.class_stat and returned
ReprStep(cs, th, me) ==
    CASE th.pc = "idle" ->
            [cs |-> cs, th |-> [th EXCEPT !.pc = IF cs.id = 0 THEN "init" ELSE "content"]]
      [] th.pc = "init" ->
            LET first == NextLabel(1, 1)
            IN  [cs |-> [id |-> me, counts |-> [n \in Range(class_names) |-> 0]],
                 th |-> [th EXCEPT !.pc = IF first = <<0, 0>> THEN "content" ELSE "load",
                                   !.i = first[1], !.k = first[2]]]
      [] th.pc = "load" ->
            LET class_index == LabelsOf(th.i)[th.k]
            IN  IF class_index < -Len(class_names) \/ class_index >= Len(class_names)
                THEN [cs |-> cs, th |-> [th EXCEPT !.pc = "raised"]]
                ELSE LET class_name == class_names[PyIndex(Len(class_names), class_index)]
                     IN  [cs |-> cs,
                          th |-> [th EXCEPT !.pc = "store",
                                            !.held = [id |-> cs.id, name |-> class_name,
                                                      val |-> cs.counts[class_name] + 1]]]
      [] th.pc = "store" ->
            LET nxt == NextLabel(th.i, th.k + 1)
            IN  [cs |-> IF cs.id = th.held.id
                        THEN [cs EXCEPT !.counts[th.held.name] = th.held.val]
                        ELSE cs,
                 th |-> [th EXCEPT !.pc = IF nxt = <<0, 0>> THEN "content" ELSE "load",
                                   !.i = nxt[1], !.k = nxt[2]]]
      [] th.pc = "content" ->
            [cs |-> cs,
             th |-> [th EXCEPT !.pc = "done",
                               !.summary = [images |-> Len(data),
                                            min_image_num |-> min_image_num,
                                            counts |-> cs.counts]]]

\* A whole call of __repr__ by one caller with nothing running in between.
RECURSIVE ReprRun(_, _, _)
ReprRun(cs, th, me) ==
    IF th.pc \in {"done", "raised"} THEN [cs |-> cs, th |-> th]
    ELSE LET r == ReprStep(cs, th, me) IN ReprRun(r.cs, r.th, me)

\* repr(dataset), single-threaded: the call runs to its return or its
\* exception. A new call starts from the top whatever the last one did.
Repr ==
    /\ pc = "ready"
    /\ LET r == ReprRun(class_stat, [thr[1] EXCEPT !.pc = "idle"], 1)
       IN  /\ class_stat' = r.cs
           /\ thr' = [thr EXCEPT ![1] = r.th]
    /\ UNCHANGED <<input, pc, err, class_names, class_dict, cat_map, local_data,
                   skipped_images, cursor, clip, data, heap, ret>>

\* repr(dataset) from several threads, one call each: one step of one caller.
ReprThreadStep ==
    /\ pc = "ready"
    /\ \E t \in Threads :
          /\ thr[t].pc \notin {"done", "raised"}
          /\ LET r == ReprStep(class_stat, thr[t], t)
             IN  /\ class_stat' = r.cs
                 /\ thr' = [thr EXCEPT ![t] = r.th]
    /\ UNCHANGED <<input, pc, err, class_names, class_dict, cat_map, local_data,
                   skipped_images, cursor, clip, data, heap, ret>>

Next ==
    \/ ReadCategories
    \/ CocoScanImage
    \/ YoloEnterClip
    \/ YoloScanFrame
    \/ ReadDone
    \/ FinishInit
    \/ Get
    \/ GetAnnotation
    \/ CallerMutate
    \/ Repr

Spec == Init /\ [][Next]_vars

\* Construction, then concurrent first calls of __repr__.
NextThreads ==
    \/ ReadCategories
    \/ CocoScanImage
    \/ YoloEnterClip
    \/ YoloScanFrame
    \/ ReadDone
    \/ FinishInit
    \/ ReprThreadStep

SpecThreads == Init /\ [][NextThreads]_vars

\* ================================================================== claims
Served == ret.status = "ok"
Called == ret.status \in {"ok", "IndexError:list", "IndexError:array"}
Rows(a) == heap[a].rows

Stored ==
    [i \in DOMAIN data |->
        [image_id |-> data[i].image_id, boxes |-> heap[data[i].boxes],
         labels |-> heap[data[i].labels]]]

RecordAddrs == {data[i].boxes : i \in DOMAIN data} \cup {data[i].labels : i \in DOMAIN data}

\* C2: once the dataset is constructed no step (a get, a get_annotation, a
\* caller writing into what it was handed) changes what a record holds, and
\* the arrays handed out are never the record's own.
C2_RecordsUntouched ==
    [][pc = "ready" =>
          /\ Stored' = Stored
          /\ ret'.status \in {"ok", "consumed"} =>
                ret'.boxes \notin RecordAddrs /\ ret'.labels \notin RecordAddrs]_vars

\* A caller has overwritten a transformed, normalized sample of a record
\* that has annotations.
C2_MutatedSample ==
    /\ pc = "ready"
    /\ ret.status = "consumed"
    /\ ret.tkind = "to_tensor"
    /\ ~target_transform
    /\ Rows(ret.labels) # <<>>
    /\ \A i \in DOMAIN Rows(ret.labels) : Rows(ret.labels)[i] = 0

\* ---- C3
\* True width and height of an image, whatever its axis order.
TrueWidth(image) == IF image.layout = "HWC" THEN image.shape[2] ELSE image.shape[3]
TrueHeight(image) == IF image.layout = "HWC" THEN image.shape[1] ELSE image.shape[2]

\* C3: a served box is the record's pixel box (neither "none" nor
\* "to_tensor" moves boxes) with x over the output image's width and y over
\* its height.
C3_NormalizedByWidthHeight ==
    (Served /\ ~target_transform /\ ret.tkind \in {"none", "to_tensor"}) =>
        LET px == heap[data[PyIndex(Len(data), ret.index)].boxes].rows
            w == TrueWidth(ret.image)
            h == TrueHeight(ret.image)
        IN  Rows(ret.boxes) =
                [i \in DOMAIN px |->
                    <<QDivInt(px[i][1], w), QDivInt(px[i][2], h),
                      QDivInt(px[i][3], w), QDivInt(px[i][4], h)>>]

\* ---- C4
\* C4: every stored label is an index 1 .. len(class_names)-1 under which
\* the catalog holds the name of the annotation's category.
C4_LabelsCanonical ==
    \A i \in DOMAIN local_data :
        LET l == heap[local_data[i].labels].rows
        IN  \A k \in DOMAIN l :
                /\ l[k] \in 1..(Len(class_names) - 1)
                /\ At0(class_names, l[k]) = cats[AnnCatPos(k, cats)].name

\* ---- C5
\* References of the entries among the first n whose file is on disk, in
\* index order.
RECURSIVE PresentRefs(_)
PresentRefs(n) ==
    IF n = 0 THEN <<>>
    ELSE IF images[n].present THEN Append(PresentRefs(n - 1), Ref(n))
    ELSE PresentRefs(n - 1)

LoadErrors == {"AssertionError", "AttributeError:imread"}

\* C5: at every point of the COCO scan the skip counter is the number of
\* scanned entries without a file and the records are those of the scanned
\* entries with a file, one each, in index order; a missing file never ends
\* the load, and the list the dataset gets is that of the whole scan.
C5_SkipAccounting ==
    (variant = "coco" /\ pc # "cats") =>
        LET scanned == cursor - 1
        IN  /\ skipped_images = Cardinality({j \in 1..scanned : ~images[j].present})
            /\ [i \in DOMAIN local_data |-> local_data[i].image_id] = PresentRefs(scanned)
            /\ Len(local_data) = scanned - skipped_images
            /\ err \notin LoadErrors
            /\ pc \in {"init", "ready"} =>
                  /\ scanned = Len(images)
                  /\ pc = "ready" => data = local_data

C5_SkippedAndKept ==
    /\ variant = "coco"
    /\ pc = "ready"
    /\ skipped_images >= 1
    /\ Len(data) >= 1
    /\ ~images[1].present

\* ---- C6
Mismatched == {c \in DOMAIN clips : ~(clips[c].labels = StillCount(c))}

\* C6: when some clip directory of a YOLO split has different numbers of
\* label and image files, construction never completes, self.data is never
\* bound, and no label file of such a clip is ever scanned.
C6_MismatchFatal ==
    (variant = "yolo" /\ Mismatched # {}) =>
        /\ pc \notin {"init", "ready"}
        /\ data = <<>>
        /\ \A c \in Mismatched : cursor <= ClipStart(c)

C6_FailedAfterEarlierClip ==
    /\ variant = "yolo"
    /\ pc = "failed"
    /\ err = "AssertionError"
    /\ Len(local_data) >= 1
    /\ data = <<>>

\* ---- C7
CatalogAsClaimed ==
    /\ class_names = <<"BACKGROUND">> \o [i \in DOMAIN cats |-> cats[i].name]
    /\ Cardinality(DOMAIN class_dict) = Len(class_names)
    /\ \A i \in DOMAIN class_names :
          class_names[i] \in DOMAIN class_dict /\ class_dict[class_names[i]] = i - 1

\* C7 as stated: for any category list the catalog is BACKGROUND followed by
\* the category names and class_dict enumerates it, one entry per position.
C7_AnyNames == pc # "cats" => CatalogAsClaimed

NamesDistinct ==
    /\ \A i, j \in DOMAIN cats : i # j => cats[i].name # cats[j].name
    /\ \A i \in DOMAIN cats : cats[i].name # "BACKGROUND"

\* C7 amended: index 0 of the catalog is always BACKGROUND; when the
\* category names are pairwise distinct and none is "BACKGROUND", the
\* catalog is BACKGROUND followed by the names in source order and
\* class_dict is its enumeration, one entry per position.
C7_DistinctNames ==
    pc # "cats" =>
        /\ class_names[1] = "BACKGROUND"
        /\ NamesDistinct => CatalogAsClaimed

C7_CatalogBuilt == pc = "ready" /\ variant = "coco" /\ NamesDistinct /\ Len(class_names) = 3

\* ---- C8
\* C8: without transforms, a call on the index of a record that has no
\* annotation returns an empty box array and an empty label array.
C8_EmptyRecordServed ==
    (Called /\ ~transform /\ ~target_transform /\ PyIndex(Len(data), ret.index) # 0) =>
        LET rec == data[PyIndex(Len(data), ret.index)]
        IN  heap[rec.labels].rows = <<>> =>
                Served /\ Rows(ret.boxes) = <<>> /\ Rows(ret.labels) = <<>>

\* ---- C9
\* C9: no served sample has different numbers of boxes and labels.
C9_CountsAgree == Served => Len(Rows(ret.boxes)) = Len(Rows(ret.labels))

\* ---- C10
\* Number of records among recs in which class index c occurs.
ImagesOfClass(recs, c) ==
    Cardinality({i \in DOMAIN recs : c \in Range(heap[recs[i].labels].rows)})

ObjectClasses == 1..(Len(class_names) - 1)

\* C10: a construction with balance_data set ends, when the load itself
\* succeeded, in a dataset whose records are records of the load, whole,
\* with no class in more records than the rarest class had before.
C10_BalancedSubset ==
    balance_data =>
        /\ pc = "failed" => err \in LoadErrors
        /\ pc = "ready" =>
              /\ Range(data) \subseteq Range(local_data)
              /\ \A c \in ObjectClasses : \A m \in ObjectClasses :
                    ImagesOfClass(data, c) <= ImagesOfClass(local_data, m)

\* ---- C11
\* Number of labels equal to class index c over all records of self.data.
RECURSIVE LabelCount(_, _)
LabelCount(c, n) ==
    IF n = 0 THEN 0
    ELSE LabelCount(c, n - 1)
           + Cardinality({k \in DOMAIN LabelsOf(n) : LabelsOf(n)[k] = c})

CatalogIndices == 0..(Len(class_names) - 1)

\* The per-class table t gives every catalog class the number of labels of
\* that class.
CountsExact(t) ==
    \A c \in CatalogIndices : t[At0(class_names, c)] = LabelCount(c, Len(data))

\* C11: a call of repr returns (it does not raise), and what it returns is
\* the record count, the min_image_num watermark and, for every catalog
\* class, the number of labels of that class; the table returned is the one
\* cached in class_stat. (Category names taken pairwise distinct.)
C11_SummaryExact ==
    (pc = "ready" /\ NamesDistinct) =>
        /\ thr[1].pc # "raised"
        /\ thr[1].pc = "done" =>
              /\ thr[1].summary.images = Len(data)
              /\ thr[1].summary.min_image_num = min_image_num
              /\ thr[1].summary.counts = class_stat.counts
              /\ CountsExact(thr[1].summary.counts)

\* ---- C12
LabelsInCatalog ==
    \A i \in DOMAIN data : \A k \in DOMAIN LabelsOf(i) : LabelsOf(i)[k] \in CatalogIndices

\* C12: with several callers inside repr for the first time, every summary
\* returned carries the complete counts (the cache is never seen half
\* built), and no count ever exceeds the number of labels of its class (no
\* label is counted twice). (Category names distinct and every label a
\* catalog index.)
C12_OnceOnlyCache ==
    (pc = "ready" /\ NamesDistinct /\ LabelsInCatalog) =>
        /\ \A t \in Threads : thr[t].pc = "done" => CountsExact(thr[t].summary.counts)
        /\ class_stat.id # 0 =>
              \A c \in CatalogIndices :
                  class_stat.counts[At0(class_names, c)] <= LabelCount(c, Len(data))

====
